---------------------------- MODULE Spec2Model ----------------------------
(***************************************************************************)
(* Author identity resolution of gitwiser (src/cli/commands/authors.js):   *)
(* the normalizer, the pairwise matchers and the greedy clustering of      *)
(* findClusters, stepped loop iteration by loop iteration.                 *)
(*                                                                         *)
(* The string operations work on sequences of one-character strings, so    *)
(* that lower-casing, splitting, the no-reply regular expression and the   *)
(* edit distance are computed character by character; the records hold     *)
(* their names and addresses as strings, whose characters Chars gives.     *)
(* Numbers that JavaScript holds as doubles (confidences, similarities)    *)
(* are exact fractions [n, d] in lowest terms; the thresholds of the model *)
(* are chosen where the double comparison and the exact comparison agree.  *)
(* A reason code is the sequence of the string fragments it is             *)
(* concatenated from.                                                      *)
(***************************************************************************)
EXTENDS Integers, Sequences, FiniteSets, TLC

(***************************************************************************)
(* Exact fractions                                                         *)
(***************************************************************************)
RECURSIVE GCD(_, _)
GCD(a, b) ==
  IF b = 0 THEN a ELSE GCD(b, a % b)

Rat(n, d) ==
  LET g == GCD(n, d) IN [n |-> n \div g, d |-> d \div g]

RMul(x, y) ==
  Rat(x.n * y.n, x.d * y.d)

RAdd(x, y) ==
  Rat(x.n * y.d + y.n * x.d, x.d * y.d)

ROneMinus(x) ==
  Rat(x.d - x.n, x.d)

RLt(x, y) ==
  x.n * y.d < y.n * x.d

RGe(x, y) ==
  ~RLt(x, y)

Zero ==
  Rat(0, 1)

One ==
  Rat(1, 1)

(***************************************************************************)
(* Characters and strings                                                  *)
(***************************************************************************)
UpperChars ==
  <<"A","B","C","D","E","F","G","H","I","J","K","L","M","N","O","P","Q","R","S","T","U","V","W","X","Y","Z">>

LowerChars ==
  <<"a","b","c","d","e","f","g","h","i","j","k","l","m","n","o","p","q","r","s","t","u","v","w","x","y","z">>

Digits ==
  {"0","1","2","3","4","5","6","7","8","9"}

Range(s) ==
  {s[k] : k \in 1..Len(s)}

UpperSet ==
  Range(UpperChars)

\* [a-z0-9]
AlnumSet ==
  Range(LowerChars) \cup Digits

toLowerChar(c) ==
  IF c \in UpperSet
  THEN LowerChars[CHOOSE k \in 1..Len(UpperChars) : UpperChars[k] = c]
  ELSE c

toLowerCase(s) ==
  [k \in 1..Len(s) |-> toLowerChar(s[k])]

\* String.prototype.split(sep) for a one-character separator: the pieces
\* between the separators, one piece more than there are separators.
RECURSIVE split(_, _)
split(s, sep) ==
  IF \A k \in 1..Len(s) : s[k] # sep
  THEN <<s>>
  ELSE LET p == CHOOSE k \in 1..Len(s) :
                  s[k] = sep /\ \A m \in 1..(k - 1) : s[m] # sep
       IN <<SubSeq(s, 1, p - 1)>> \o split(SubSeq(s, p + 1, Len(s)), sep)

includes(s, t) ==
  \E k \in 0..(Len(s) - Len(t)) : SubSeq(s, k + 1, k + Len(t)) = t

\* /\s+/g -> ' ' : every run of spaces becomes one space.
RECURSIVE collapse(_)
collapse(s) ==
  IF Len(s) <= 1 THEN s
  ELSE IF s[1] = " " /\ s[2] = " " THEN collapse(Tail(s))
  ELSE <<s[1]>> \o collapse(Tail(s))

RECURSIVE trimStart(_)
trimStart(s) ==
  IF Len(s) > 0 /\ s[1] = " " THEN trimStart(Tail(s)) ELSE s

RECURSIVE trimEnd(_)
trimEnd(s) ==
  IF Len(s) > 0 /\ s[Len(s)] = " " THEN trimEnd(SubSeq(s, 1, Len(s) - 1)) ELSE s

trim(s) ==
  trimEnd(trimStart(s))

GhSuffix ==
  <<"@","u","s","e","r","s",".","n","o","r","e","p","l","y",".","g","i","t","h","u","b",".","c","o","m">>

\* The characters of the strings of the model: a name or an address is held
\* as a string and read character by character through this table.
Chars ==
  ("Bot" :> <<"B","o","t">>)
  @@ ("Alex K" :> <<"A","l","e","x"," ","K">>)
  @@ ("Alec" :> <<"A","l","e","c">>)
  @@ ("ALEX K" :> <<"A","L","E","X"," ","K">>)
  @@ ("alex" :> <<"a","l","e","x">>)
  @@ ("Al" :> <<"A","l">>)
  @@ ("K. Alex" :> <<"K","."," ","A","l","e","x">>)
  @@ ("alex@x.io" :> <<"a","l","e","x","@","x",".","i","o">>)
  @@ ("Alex@X.io" :> <<"A","l","e","x","@","X",".","i","o">>)
  @@ ("alex@y.io" :> <<"a","l","e","x","@","y",".","i","o">>)
  @@ ("ak@x.io" :> <<"a","k","@","x",".","i","o">>)
  @@ ("ak@y.io" :> <<"a","k","@","y",".","i","o">>)
  @@ ("1+alex@users.noreply.github.com" :> (<<"1","+","a","l","e","x">> \o GhSuffix))
  @@ ("alex@users.noreply.github.com" :> (<<"a","l","e","x">> \o GhSuffix))
  @@ ("..." :> <<".",".",".">>)
  @@ ("---" :> <<"-","-","-">>)
  @@ ("Alexa K" :> <<"A","l","e","x","a"," ","K">>)
  @@ ("Alex K J" :> <<"A","l","e","x"," ","K"," ","J">>)
  @@ ("" :> <<>>)
  @@ ("ALEX" :> <<"A","L","E","X">>)
  @@ ("ak@x.io@y" :> <<"a","k","@","x",".","i","o","@","y">>)
  @@ ("@x.io" :> <<"@","x",".","i","o">>)
  @@ ("12+@users.noreply.github.com" :> (<<"1","2","+">> \o GhSuffix))
  @@ ("7+ak@users.noreply.github.com" :> (<<"7","+","a","k">> \o GhSuffix))

(***************************************************************************)
(* Identity matching                                                       *)
(***************************************************************************)
normalizeName(name) ==
  LET lower    == toLowerCase(name)
      replaced == [k \in 1..Len(lower) |->
                     IF lower[k] \in AlnumSet
                     THEN lower[k] ELSE " "]
  IN trim(collapse(replaced))

emailLocal(email) ==
  toLowerCase(split(email, "@")[1])

emailDomain(email) ==
  LET parts == split(email, "@")
  IN IF Len(parts) >= 2 /\ parts[2] # <<>> THEN toLowerCase(parts[2]) ELSE <<>>

isNoReply(email) ==
  LET lower == toLowerCase(Chars[email])
  IN \/ includes(lower, <<"n","o","r","e","p","l","y">>)
     \/ includes(lower, <<"n","o","-","r","e","p","l","y">>)
     \/ includes(lower, <<"@","u","s","e","r","s",".","n","o","r","e","p","l","y",".","g","i","t","h","u","b",".","c","o","m">>)
     \/ includes(lower, <<"@","u","s","e","r","s",".","n","o","r","e","p","l","y",".","g","i","t","l","a","b",".","c","o","m">>)
     \/ includes(lower, <<"+">>)

Min3(x, y, z) ==
  IF x <= y /\ x <= z THEN x ELSE IF y <= z THEN y ELSE z

\* One row of the matrix: row i from row i - 1, left to right.
RECURSIVE levRow(_, _, _, _, _)
levRow(prev, a, ch, i, row) ==
  LET j == Len(row)
  IN IF j > Len(a) THEN row
     ELSE levRow(prev, a, ch, i,
                 Append(row, IF ch = a[j]
                             THEN prev[j]
                             ELSE Min3(prev[j] + 1, row[j] + 1, prev[j + 1] + 1)))

RECURSIVE levRows(_, _, _, _)
levRows(prev, a, b, i) ==
  IF i > Len(b) THEN prev
  ELSE levRows(levRow(prev, a, b[i], i, <<i>>), a, b, i + 1)

\* matrix[i][j] is held 1-based: row[j + 1] is matrix[i][j].
levenshtein(a, b) ==
  IF Len(a) = 0 THEN Len(b)
  ELSE IF Len(b) = 0 THEN Len(a)
  ELSE levRows([j \in 1..(Len(a) + 1) |-> j - 1], a, b, 1)[Len(a) + 1]

Max(x, y) ==
  IF x >= y THEN x ELSE y

\* The substring step left out.
nameSimilarityNoSubstring(name1, name2) ==
  LET n1 == normalizeName(Chars[name1])
      n2 == normalizeName(Chars[name2])
      words1 == Range(split(n1, " "))
      words2 == Range(split(n2, " "))
      jaccardSim == Rat(Cardinality(words1 \cap words2),
                        Cardinality(words1 \cup words2))
      maxLen == Max(Len(n1), Len(n2))
  IN IF n1 = n2 THEN One
     ELSE IF n1 = <<>> \/ n2 = <<>> THEN Zero
     ELSE IF RLt(Rat(1, 2), jaccardSim)
          THEN RAdd(Rat(7, 10), RMul(jaccardSim, Rat(2, 10)))
     ELSE ROneMinus(Rat(levenshtein(n1, n2), maxLen))
nameSimilarity(name1, name2) ==
  LET n1 == normalizeName(Chars[name1])
      n2 == normalizeName(Chars[name2])
      words1 == Range(split(n1, " "))
      words2 == Range(split(n2, " "))
      jaccardSim == Rat(Cardinality(words1 \cap words2),
                        Cardinality(words1 \cup words2))
      maxLen == Max(Len(n1), Len(n2))
  IN IF n1 = n2 THEN One
     ELSE IF n1 = <<>> \/ n2 = <<>> THEN Zero
     ELSE IF includes(n1, n2) \/ includes(n2, n1) THEN Rat(9, 10)
     ELSE IF RLt(Rat(1, 2), jaccardSim)
          THEN RAdd(Rat(7, 10), RMul(jaccardSim, Rat(2, 10)))
     ELSE ROneMinus(Rat(levenshtein(n1, n2), maxLen))

\* e.match(/^(\d+\+)?([^@]+)@users\.noreply\.github\.com$/): ok says whether
\* the expression matches, user is its second group.
ghMatch(e) ==
  LET at == IF "@" \in Range(e)
            THEN CHOOSE k \in 1..Len(e) : e[k] = "@" /\ \A m \in 1..(k - 1) : e[m] # "@"
            ELSE 0
      local == SubSeq(e, 1, at - 1)
      nd == IF \A k \in 1..Len(local) : local[k] \in Digits THEN Len(local)
            ELSE (CHOOSE k \in 1..Len(local) :
                    local[k] \notin Digits /\ \A m \in 1..(k - 1) : local[m] \in Digits) - 1
      prefixed == nd >= 1 /\ nd + 1 < Len(local) /\ local[nd + 1] = "+"
  IN IF at = 0 \/ at = 1 \/ SubSeq(e, at, Len(e)) # GhSuffix
     THEN [ok |-> FALSE, user |-> <<>>]
     ELSE [ok |-> TRUE,
           user |-> IF prefixed THEN SubSeq(local, nd + 2, Len(local)) ELSE local]

\* The no-reply address is looked for in the first argument only.
emailsMatchOneSided(email1, email2) ==
  LET e1 == toLowerCase(Chars[email1])
      e2 == toLowerCase(Chars[email2])
      local1 == emailLocal(e1)
      local2 == emailLocal(e2)
      ghMatch1 == ghMatch(e1)
      ghMatch2 == ghMatch(e2)
  IN IF e1 = e2
     THEN [match |-> TRUE, confidence |-> One, reason |-> <<"exact-email">>]
     ELSE IF local1 = local2 /\ Len(local1) > 3
     THEN [match |-> TRUE, confidence |-> Rat(8, 10), reason |-> <<"same-local-part">>]
     ELSE IF ghMatch1.ok /\ ghMatch2.ok /\ ghMatch1.user = ghMatch2.user
     THEN [match |-> TRUE, confidence |-> Rat(95, 100), reason |-> <<"github-noreply">>]
     ELSE IF ghMatch1.ok /\ local2 = ghMatch1.user
     THEN [match |-> TRUE, confidence |-> Rat(7, 10), reason |-> <<"github-noreply-match">>]
     ELSE [match |-> FALSE, confidence |-> Zero, reason |-> <<>>]

emailsMatch(email1, email2) ==
  LET e1 == toLowerCase(Chars[email1])
      e2 == toLowerCase(Chars[email2])
      local1 == emailLocal(e1)
      local2 == emailLocal(e2)
      ghMatch1 == ghMatch(e1)
      ghMatch2 == ghMatch(e2)
  IN IF e1 = e2
     THEN [match |-> TRUE, confidence |-> One, reason |-> <<"exact-email">>]
     ELSE IF local1 = local2 /\ Len(local1) > 3
     THEN [match |-> TRUE, confidence |-> Rat(8, 10), reason |-> <<"same-local-part">>]
     ELSE IF ghMatch1.ok /\ ghMatch2.ok /\ ghMatch1.user = ghMatch2.user
     THEN [match |-> TRUE, confidence |-> Rat(95, 100), reason |-> <<"github-noreply">>]
     ELSE IF ghMatch1.ok /\ local2 = ghMatch1.user
     THEN [match |-> TRUE, confidence |-> Rat(7, 10), reason |-> <<"github-noreply-match">>]
     ELSE IF ghMatch2.ok /\ local1 = ghMatch2.user
     THEN [match |-> TRUE, confidence |-> Rat(7, 10), reason |-> <<"github-noreply-match">>]
     ELSE [match |-> FALSE, confidence |-> Zero, reason |-> <<>>]

\* The body of the inner loop of findClusters up to the threshold test:
\* confidence and reason of the pair (canonical, candidate).
score(canonical, candidate) ==
  LET emailResult == emailsMatch(canonical.email, candidate.email)
      nameSim == nameSimilarity(canonical.name, candidate.name)
  IN IF ~emailResult.match
     THEN IF RLt(Rat(8, 10), nameSim)
          THEN IF emailDomain(Chars[canonical.email]) = emailDomain(Chars[candidate.email])
               THEN [confidence |-> RMul(nameSim, Rat(9, 10)),
                     reason |-> <<"similar-name-same-domain">>]
               ELSE [confidence |-> RMul(nameSim, Rat(7, 10)),
                     reason |-> <<"similar-name">>]
          ELSE [confidence |-> Zero, reason |-> <<>>]
     ELSE IF RLt(nameSim, Rat(3, 10))
          THEN [confidence |-> RMul(emailResult.confidence, Rat(6, 10)),
                reason |-> emailResult.reason \o <<"-name-mismatch">>]
          ELSE [confidence |-> emailResult.confidence, reason |-> emailResult.reason]

(***************************************************************************)
(* Clustering: findClusters, one action per loop step                      *)
(***************************************************************************)
\* Array.prototype.sort with (a, b) => b.commits - a.commits: stable, by
\* commits descending.
RECURSIVE insertByCommits(_, _)
insertByCommits(s, x) ==
  IF s = <<>> THEN <<x>>
  ELSE IF s[Len(s)].commits >= x.commits THEN Append(s, x)
  ELSE Append(insertByCommits(SubSeq(s, 1, Len(s) - 1), x), s[Len(s)])

\* The sort that puts a record before the records of the same commit count
\* that came before it.
RECURSIVE insertBeforeTies(_, _)
insertBeforeTies(s, x) ==
  IF s = <<>> THEN <<x>>
  ELSE IF s[Len(s)].commits > x.commits THEN Append(s, x)
  ELSE Append(insertBeforeTies(SubSeq(s, 1, Len(s) - 1), x), s[Len(s)])

RECURSIVE sortByCommitsTiesReversed(_)
sortByCommitsTiesReversed(s) ==
  IF s = <<>> THEN <<>>
  ELSE insertBeforeTies(sortByCommitsTiesReversed(SubSeq(s, 1, Len(s) - 1)), s[Len(s)])
\* The list taken as it comes.
sortByCommitsSkipped(s) ==
  s

RECURSIVE sortByCommits(_)
sortByCommits(s) ==
  IF s = <<>> THEN <<>>
  ELSE insertByCommits(sortByCommits(SubSeq(s, 1, Len(s) - 1)), s[Len(s)])

RECURSIVE insertByTotal(_, _)
insertByTotal(s, x) ==
  IF s = <<>> THEN <<x>>
  ELSE IF s[Len(s)].totalCommits >= x.totalCommits THEN Append(s, x)
  ELSE Append(insertByTotal(SubSeq(s, 1, Len(s) - 1), x), s[Len(s)])

\* The clusters returned in the order they were found.
sortByTotalSkipped(s) ==
  s

RECURSIVE sortByTotal(_)
sortByTotal(s) ==
  IF s = <<>> THEN <<>>
  ELSE insertByTotal(sortByTotal(SubSeq(s, 1, Len(s) - 1)), s[Len(s)])

\* aliases.reduce((sum, a) => sum + a.commits, 0)
RECURSIVE sumCommits(_)
sumCommits(s) ==
  IF s = <<>> THEN 0 ELSE sumCommits(SubSeq(s, 1, Len(s) - 1)) + s[Len(s)].commits

\* The longest record list the model feeds to findClusters.
MaxRecords ==
  4

\* The author identities of the modelled repository, as `git shortlog -sne`
\* reports them: one record per distinct (name, email).
Pool ==
  { [name |-> "Bot", email |-> "alex@x.io", commits |-> 6],
    [name |-> "Alex K", email |-> "Alex@X.io", commits |-> 5],
    [name |-> "Alec", email |-> "alex@y.io", commits |-> 3],
    [name |-> "ALEX K", email |-> "ak@x.io", commits |-> 4],
    [name |-> "alex", email |-> "1+alex@users.noreply.github.com", commits |-> 6],
    [name |-> "Al", email |-> "alex@users.noreply.github.com", commits |-> 6],
    [name |-> "K. Alex", email |-> "ak@y.io", commits |-> 1] }

AuthorLists ==
  UNION { { s \in [1..n -> Pool] : \A a, b \in 1..n : a # b => s[a] # s[b] }
          : n \in 0..MaxRecords }

\* --threshold percentages; minConfidence is the percentage over 100.
Thresholds ==
  {0, 1, 60, 70}

VARIABLES authors, minConfidence, pc, sorted, assigned, clusters, i, j,
          aliases, clusterReason, ret, prev, stats, mailmap, pair, scored,
          options, mailmapFile, exited

vars ==
  <<authors, minConfidence, pc, sorted, assigned, clusters, i, j,
    aliases, clusterReason, ret, prev, stats, mailmap, pair, scored,
    options, mailmapFile, exited>>

\* The comparison turned around.
isMatchFlipped(confidence, threshold) ==
  RGe(threshold, confidence)

\* The comparison made strict.
isMatchStrict(confidence, threshold) ==
  RLt(threshold, confidence)

\* if (confidence >= minConfidence)
isMatch(confidence, threshold) ==
  RGe(confidence, threshold)

\* A merged record that is not marked stays a candidate of later canonicals.
markAssignedForgotten(set, k) ==
  set

\* assigned.add(k)
markAssigned(set, k) ==
  set \cup {k}

\* The test passes an empty alias list.
hasAliasesOrNone(al) ==
  Len(al) >= 0

\* if (aliases.length > 0)
hasAliases(al) ==
  Len(al) > 0

\* The canonical's own commits left out.
totalCommitsOfAliases(canonical, al) ==
  sumCommits(al)

\* canonical.commits + aliases.reduce((sum, a) => sum + a.commits, 0)
totalCommitsOf(canonical, al) ==
  canonical.commits + sumCommits(al)

\* sorted[i] of the source, whose indices start at 0.
At(s, k) ==
  s[k + 1]

Init ==
  /\ authors \in AuthorLists
  /\ minConfidence = Rat(60, 100)
  /\ pc = "idle"
  /\ sorted = <<>>
  /\ assigned = {}
  /\ clusters = <<>>
  /\ i = 0
  /\ j = 0
  /\ aliases = <<>>
  /\ clusterReason = <<>>
  /\ ret = <<>>
  /\ prev = <<>>
  /\ stats = <<>>
  /\ mailmap = <<>>
  /\ pair = <<>>
  /\ scored = <<>>
  /\ options = [output |-> "json", apply |-> FALSE]
  /\ mailmapFile = [before |-> <<>>, now |-> <<>>]
  /\ exited = <<>>

\* findClusters sorting the caller's array: authors.sort(...) in place of
\* [...authors].sort(...).
CallSortingInPlace(t) ==
  /\ pc \in {"idle", "done", "out"}
  /\ minConfidence' = Rat(t, 100)
  /\ clusters' = <<>>
  /\ assigned' = {}
  /\ authors' = sortByCommits(authors)
  /\ sorted' = sortByCommits(authors)
  /\ i' = 0
  /\ j' = 0
  /\ aliases' = <<>>
  /\ clusterReason' = <<>>
  /\ prev' = IF pc \in {"done", "out"}
             THEN <<[minConfidence |-> minConfidence, ret |-> ret]>>
             ELSE <<>>
  /\ pc' = "outer"
  /\ stats' = <<>>
  /\ mailmap' = <<>>
  /\ UNCHANGED <<ret, pair, scored, options, mailmapFile, exited>>

\* The set of assigned positions kept from the call before.
CallKeepingAssigned(t) ==
  /\ pc \in {"idle", "done", "out"}
  /\ minConfidence' = Rat(t, 100)
  /\ clusters' = <<>>
  /\ sorted' = sortByCommits(authors)
  /\ i' = 0
  /\ j' = 0
  /\ aliases' = <<>>
  /\ clusterReason' = <<>>
  /\ prev' = IF pc \in {"done", "out"}
             THEN <<[minConfidence |-> minConfidence, ret |-> ret]>>
             ELSE <<>>
  /\ pc' = "outer"
  /\ stats' = <<>>
  /\ mailmap' = <<>>
  /\ UNCHANGED <<authors, ret, assigned, pair, scored,
                 options, mailmapFile, exited>>

\* findClusters(authors, t / 100): the locals before the outer loop.
Call(t) ==
  /\ pc \in {"idle", "done", "out"}
  /\ minConfidence' = Rat(t, 100)
  /\ clusters' = <<>>
  /\ assigned' = {}
  /\ sorted' = sortByCommits(authors)
  /\ i' = 0
  /\ j' = 0
  /\ aliases' = <<>>
  /\ clusterReason' = <<>>
  /\ prev' = IF pc \in {"done", "out"}
             THEN <<[minConfidence |-> minConfidence, ret |-> ret]>>
             ELSE <<>>
  /\ pc' = "outer"
  /\ stats' = <<>>
  /\ mailmap' = <<>>
  /\ UNCHANGED <<authors, ret, pair, scored,
                 options, mailmapFile, exited>>

\* if (assigned.has(i)) continue;
OuterSkip ==
  /\ pc = "outer"
  /\ i < Len(sorted)
  /\ i \in assigned
  /\ i' = i + 1
  /\ UNCHANGED <<authors, minConfidence, pc, sorted, assigned, clusters, j,
                 aliases, clusterReason, ret, prev>>
  /\ UNCHANGED <<stats, mailmap, pair, scored,
                 options, mailmapFile, exited>>

\* canonical = sorted[i]; aliases = []; clusterReason = ''; j = i + 1
OuterBegin ==
  /\ pc = "outer"
  /\ i < Len(sorted)
  /\ i \notin assigned
  /\ aliases' = <<>>
  /\ clusterReason' = <<>>
  /\ j' = i + 1
  /\ pc' = "inner"
  /\ UNCHANGED <<authors, minConfidence, sorted, assigned, clusters, i, ret, prev>>
  /\ UNCHANGED <<stats, mailmap, pair, scored,
                 options, mailmapFile, exited>>

\* if (assigned.has(j)) continue;
InnerSkip ==
  /\ pc = "inner"
  /\ j < Len(sorted)
  /\ j \in assigned
  /\ j' = j + 1
  /\ UNCHANGED <<authors, minConfidence, pc, sorted, assigned, clusters, i,
                 aliases, clusterReason, ret, prev>>
  /\ UNCHANGED <<stats, mailmap, pair, scored,
                 options, mailmapFile, exited>>

\* The cluster reason overwritten by every merged alias.
InnerStepLastReason ==
  /\ pc = "inner"
  /\ j < Len(sorted)
  /\ j \notin assigned
  /\ LET canonical == At(sorted, i)
         candidate == At(sorted, j)
         sc == score(canonical, candidate)
     IN IF isMatch(sc.confidence, minConfidence)
        THEN /\ aliases' = Append(aliases,
                             [name |-> candidate.name, email |-> candidate.email,
                              commits |-> candidate.commits,
                              confidence |-> sc.confidence, reason |-> sc.reason])
             /\ assigned' = markAssigned(assigned, j)
             /\ clusterReason' = sc.reason
        ELSE UNCHANGED <<aliases, assigned, clusterReason>>
  /\ j' = j + 1
  /\ UNCHANGED <<authors, minConfidence, pc, sorted, clusters, i, ret, prev>>
  /\ UNCHANGED <<stats, mailmap, pair, scored,
                 options, mailmapFile, exited>>
\* One candidate: score it against the canonical and merge it when the
\* confidence reaches minConfidence.
InnerStep ==
  /\ pc = "inner"
  /\ j < Len(sorted)
  /\ j \notin assigned
  /\ LET canonical == At(sorted, i)
         candidate == At(sorted, j)
         sc == score(canonical, candidate)
     IN IF isMatch(sc.confidence, minConfidence)
        THEN /\ aliases' = Append(aliases,
                             [name |-> candidate.name, email |-> candidate.email,
                              commits |-> candidate.commits,
                              confidence |-> sc.confidence, reason |-> sc.reason])
             /\ assigned' = markAssigned(assigned, j)
             /\ clusterReason' = IF clusterReason = <<>> THEN sc.reason
                                 ELSE clusterReason
        ELSE UNCHANGED <<aliases, assigned, clusterReason>>
  /\ j' = j + 1
  /\ UNCHANGED <<authors, minConfidence, pc, sorted, clusters, i, ret, prev>>
  /\ UNCHANGED <<stats, mailmap, pair, scored,
                 options, mailmapFile, exited>>

\* After the inner loop: emit the cluster when an alias was found.
InnerEnd ==
  /\ pc = "inner"
  /\ j >= Len(sorted)
  /\ IF hasAliases(aliases)
     THEN /\ assigned' = markAssigned(assigned, i)
          /\ clusters' = Append(clusters,
                           [canonical |-> At(sorted, i),
                            aliases |-> aliases,
                            totalCommits |-> totalCommitsOf(At(sorted, i), aliases),
                            reason |-> clusterReason])
     ELSE UNCHANGED <<assigned, clusters>>
  /\ i' = i + 1
  /\ pc' = "outer"
  /\ UNCHANGED <<authors, minConfidence, sorted, j, aliases, clusterReason, ret, prev>>
  /\ UNCHANGED <<stats, mailmap, pair, scored,
                 options, mailmapFile, exited>>

\* return clusters.sort((a, b) => b.totalCommits - a.totalCommits);
Return ==
  /\ pc = "outer"
  /\ i >= Len(sorted)
  /\ ret' = sortByTotal(clusters)
  /\ clusters' = sortByTotal(clusters)
  /\ pc' = "done"
  /\ UNCHANGED <<authors, minConfidence, sorted, assigned, i, j, aliases,
                 clusterReason, prev>>
  /\ UNCHANGED <<stats, mailmap, pair, scored,
                 options, mailmapFile, exited>>

\* clusters.reduce((sum, c) => sum + c.aliases.length, 0)
RECURSIVE sumAliases(_)
sumAliases(cs) ==
  IF cs = <<>> THEN 0
  ELSE sumAliases(SubSeq(cs, 1, Len(cs) - 1)) + Len(cs[Len(cs)].aliases)

\* ((n / d) * 100).toFixed(1) read back by parseFloat: a count of tenths,
\* rounded half up. A division of zero by zero is NaN, of a positive number
\* by zero Infinity; toFixed and parseFloat hand both through.
toFixed1(n, d) ==
  IF d = 0
  THEN IF n = 0 THEN [kind |-> "NaN", tenths |-> 0]
       ELSE [kind |-> "Infinity", tenths |-> 0]
  ELSE [kind |-> "finite", tenths |-> (2000 * n + d) \div (2 * d)]

\* The duplicates counted as one per cluster.
calculateStatsPerCluster(records, cs) ==
  [totalIdentities |-> Len(records),
   duplicateIdentities |-> Len(cs),
   uniqueContributors |-> Len(records) - Len(cs),
   consolidationRate |-> toFixed1(Len(cs), Len(records)),
   clusters |-> Len(cs)]
\* authorsCommand, "Calculate stats", with the cluster count the JSON adds.
calculateStats(records, cs) ==
  LET totalIdentities == Len(records)
      duplicateIdentities == sumAliases(cs)
  IN [totalIdentities |-> totalIdentities,
      duplicateIdentities |-> duplicateIdentities,
      uniqueContributors |-> totalIdentities - duplicateIdentities,
      consolidationRate |-> toFixed1(duplicateIdentities, totalIdentities),
      clusters |-> Len(cs)]

\* A line of text is the sequence of the pieces its template puts together.
headerLines ==
  << <<"# Generated by gitaudit (gitaudit authors)">>,
     <<"# Format: Proper Name <proper@email.com> Alias Name <alias@email.com>">>,
     <<>> >>

clusterLine(cluster) ==
  <<"# Cluster: ", cluster.canonical.name, " (", ToString(cluster.totalCommits),
    " commits)">>

\* The alias written in the place of the proper identity.
aliasLineSwapped(canonical, alias) ==
  <<alias.name, " <", alias.email, "> ", canonical.name, " <", canonical.email, ">">>
aliasLine(canonical, alias) ==
  <<canonical.name, " <", canonical.email, "> ", alias.name, " <", alias.email, ">">>

RECURSIVE aliasLines(_, _)
aliasLines(canonical, al) ==
  IF al = <<>> THEN <<>>
  ELSE <<aliasLine(canonical, Head(al))>> \o aliasLines(canonical, Tail(al))

RECURSIVE clusterLines(_)
clusterLines(cs) ==
  IF cs = <<>> THEN <<>>
  ELSE <<clusterLine(Head(cs))>> \o aliasLines(Head(cs).canonical, Head(cs).aliases)
       \o << <<>> >> \o clusterLines(Tail(cs))

\* lines.join('\n')
RECURSIVE join(_)
join(lines) ==
  IF lines = <<>> THEN <<>>
  ELSE IF Len(lines) = 1 THEN lines[1]
  ELSE lines[1] \o <<"\n">> \o join(Tail(lines))

generateMailmap(cs) ==
  join(headerLines \o clusterLines(cs))

\* The statistics authorsCommand computes from the clusters findClusters returned.
ComputeStats ==
  /\ pc = "done"
  /\ stats' = <<calculateStats(authors, ret)>>
  /\ pc' = "stats"
  /\ UNCHANGED <<authors, minConfidence, sorted, assigned, clusters, i, j,
                 aliases, clusterReason, ret, prev, mailmap, pair, scored,
                 options, mailmapFile, exited>>

\* The mailmap text of the json and mailmap outputs.
GenerateMailmap ==
  /\ pc = "stats"
  /\ options.output \in {"json", "mailmap"}
  /\ mailmap' = generateMailmap(ret)
  /\ pc' = "out"
  /\ UNCHANGED <<authors, minConfidence, sorted, assigned, clusters, i, j,
                 aliases, clusterReason, ret, prev, stats, pair, scored,
                 options, mailmapFile, exited>>

Next ==
  \/ \E t \in Thresholds : Call(t)
  \/ OuterSkip
  \/ OuterBegin
  \/ InnerSkip
  \/ InnerStep
  \/ InnerEnd
  \/ Return
  \/ ComputeStats
  \/ GenerateMailmap

Spec ==
  Init /\ [][Next]_vars

(***************************************************************************)
(* The scoring of one pair of records, over names and addresses of every   *)
(* shape the scoring functions tell apart.                                 *)
(***************************************************************************)
NameSamples ==
  {"Bot", "Alex K", "ALEX K", "Alec", "alex", "Al", "K. Alex",
   "Alexa K", "Alex K J", "...", "---"}

EmailSamples ==
  {"alex@x.io", "Alex@X.io", "alex@y.io", "ak@x.io", "ak@y.io",
   "1+alex@users.noreply.github.com", "alex@users.noreply.github.com",
   "7+ak@users.noreply.github.com", "12+@users.noreply.github.com",
   "", "alex", "ALEX", "@x.io", "ak@x.io@y"}

SampleRecords ==
  { [name |-> n, email |-> e, commits |-> 1] : n \in NameSamples, e \in EmailSamples }

\* Two identities of one shortlog: they differ in the name or the address.
InitPair ==
  /\ pair \in { p \in SampleRecords \X SampleRecords : p[1] # p[2] }
  /\ scored = <<>>
  /\ authors = <<>>
  /\ minConfidence = Rat(60, 100)
  /\ pc = "pair"
  /\ sorted = <<>>
  /\ assigned = {}
  /\ clusters = <<>>
  /\ i = 0
  /\ j = 0
  /\ aliases = <<>>
  /\ clusterReason = <<>>
  /\ ret = <<>>
  /\ prev = <<>>
  /\ stats = <<>>
  /\ mailmap = <<>>
  /\ options = [output |-> "json", apply |-> FALSE]
  /\ mailmapFile = [before |-> <<>>, now |-> <<>>]
  /\ exited = <<>>

\* The body of the inner loop on the pair (canonical, candidate), with what
\* the functions it calls return.
ScorePair ==
  /\ pc = "pair"
  /\ scored = <<>>
  /\ LET canonical == pair[1]
         candidate == pair[2]
         sc == score(canonical, candidate)
     IN scored' = <<[emailResult |-> emailsMatch(canonical.email, candidate.email),
                     nameSim |-> nameSimilarity(canonical.name, candidate.name),
                     local1 |-> emailLocal(Chars[canonical.email]),
                     local2 |-> emailLocal(Chars[candidate.email]),
                     domain1 |-> emailDomain(Chars[canonical.email]),
                     domain2 |-> emailDomain(Chars[candidate.email]),
                     confidence |-> sc.confidence,
                     reason |-> sc.reason]>>
  /\ UNCHANGED <<authors, minConfidence, pc, sorted, assigned, clusters, i, j,
                 aliases, clusterReason, ret, prev, stats, mailmap, pair,
                 options, mailmapFile, exited>>

NextPair ==
  ScorePair

SpecPair ==
  InitPair /\ [][NextPair]_vars
(***************************************************************************)
(* authorsCommand after findClusters has returned: the output, over        *)
(* results of up to MaxClusters clusters.                                  *)
(***************************************************************************)
\* The longest cluster list the output is run on.
MaxClusters ==
  11

\* clusters.slice(0, 10) and clusters.length > 10
DisplayLimit ==
  10

\* What findClusters returns at 0.7 for a shortlog in which each of these
\* contributors has two addresses with one local-part.
ReturnedClusters ==
  <<
     [canonical |-> [name |-> "Ann", email |-> "anndev@x.io", commits |-> 2],
      aliases |-> << [name |-> "Ann", email |-> "anndev@y.io", commits |-> 1,
                      confidence |-> Rat(8, 10), reason |-> <<"same-local-part">>] >>,
      totalCommits |-> 3, reason |-> <<"same-local-part">>],
     [canonical |-> [name |-> "Ben", email |-> "bendev@x.io", commits |-> 2],
      aliases |-> << [name |-> "Ben", email |-> "bendev@y.io", commits |-> 1,
                      confidence |-> Rat(8, 10), reason |-> <<"same-local-part">>] >>,
      totalCommits |-> 3, reason |-> <<"same-local-part">>],
     [canonical |-> [name |-> "Cal", email |-> "caldev@x.io", commits |-> 2],
      aliases |-> << [name |-> "Cal", email |-> "caldev@y.io", commits |-> 1,
                      confidence |-> Rat(8, 10), reason |-> <<"same-local-part">>] >>,
      totalCommits |-> 3, reason |-> <<"same-local-part">>],
     [canonical |-> [name |-> "Dan", email |-> "dandev@x.io", commits |-> 2],
      aliases |-> << [name |-> "Dan", email |-> "dandev@y.io", commits |-> 1,
                      confidence |-> Rat(8, 10), reason |-> <<"same-local-part">>] >>,
      totalCommits |-> 3, reason |-> <<"same-local-part">>],
     [canonical |-> [name |-> "Eve", email |-> "evedev@x.io", commits |-> 2],
      aliases |-> << [name |-> "Eve", email |-> "evedev@y.io", commits |-> 1,
                      confidence |-> Rat(8, 10), reason |-> <<"same-local-part">>] >>,
      totalCommits |-> 3, reason |-> <<"same-local-part">>],
     [canonical |-> [name |-> "Fay", email |-> "faydev@x.io", commits |-> 2],
      aliases |-> << [name |-> "Fay", email |-> "faydev@y.io", commits |-> 1,
                      confidence |-> Rat(8, 10), reason |-> <<"same-local-part">>] >>,
      totalCommits |-> 3, reason |-> <<"same-local-part">>],
     [canonical |-> [name |-> "Gus", email |-> "gusdev@x.io", commits |-> 2],
      aliases |-> << [name |-> "Gus", email |-> "gusdev@y.io", commits |-> 1,
                      confidence |-> Rat(8, 10), reason |-> <<"same-local-part">>] >>,
      totalCommits |-> 3, reason |-> <<"same-local-part">>],
     [canonical |-> [name |-> "Hal", email |-> "haldev@x.io", commits |-> 2],
      aliases |-> << [name |-> "Hal", email |-> "haldev@y.io", commits |-> 1,
                      confidence |-> Rat(8, 10), reason |-> <<"same-local-part">>] >>,
      totalCommits |-> 3, reason |-> <<"same-local-part">>],
     [canonical |-> [name |-> "Ian", email |-> "iandev@x.io", commits |-> 2],
      aliases |-> << [name |-> "Ian", email |-> "iandev@y.io", commits |-> 1,
                      confidence |-> Rat(8, 10), reason |-> <<"same-local-part">>] >>,
      totalCommits |-> 3, reason |-> <<"same-local-part">>],
     [canonical |-> [name |-> "Jay", email |-> "jaydev@x.io", commits |-> 2],
      aliases |-> << [name |-> "Jay", email |-> "jaydev@y.io", commits |-> 1,
                      confidence |-> Rat(8, 10), reason |-> <<"same-local-part">>] >>,
      totalCommits |-> 3, reason |-> <<"same-local-part">>],
     [canonical |-> [name |-> "Kim", email |-> "kimdev@x.io", commits |-> 2],
      aliases |-> << [name |-> "Kim", email |-> "kimdev@y.io", commits |-> 1,
                      confidence |-> Rat(8, 10), reason |-> <<"same-local-part">>] >>,
      totalCommits |-> 3, reason |-> <<"same-local-part">>],
     [canonical |-> [name |-> "Lee", email |-> "leedev@x.io", commits |-> 2],
      aliases |-> << [name |-> "Lee", email |-> "leedev@y.io", commits |-> 1,
                      confidence |-> Rat(8, 10), reason |-> <<"same-local-part">>] >>,
      totalCommits |-> 3, reason |-> <<"same-local-part">>],
     [canonical |-> [name |-> "Moe", email |-> "moedev@x.io", commits |-> 2],
      aliases |-> << [name |-> "Moe", email |-> "moedev@y.io", commits |-> 1,
                      confidence |-> Rat(8, 10), reason |-> <<"same-local-part">>] >>,
      totalCommits |-> 3, reason |-> <<"same-local-part">>] >>

RECURSIVE canonicalsOf(_)
canonicalsOf(cs) ==
  IF cs = <<>> THEN <<>> ELSE <<Head(cs).canonical>> \o canonicalsOf(Tail(cs))

RECURSIVE aliasRecordsIn(_)
aliasRecordsIn(cs) ==
  IF cs = <<>> THEN <<>>
  ELSE <<[name |-> Head(cs).aliases[1].name, email |-> Head(cs).aliases[1].email,
          commits |-> Head(cs).aliases[1].commits]>> \o aliasRecordsIn(Tail(cs))

\* The names authors.js imports from ../lib/output.js.
imports ==
  {"printHeader", "printSubheader", "printTable", "printSuccess", "printWarning",
   "printError", "printKV", "outputJSON", "c", "createSpinner"}

\* A call of a module-level name goes through when the name is bound; of an
\* unbound name it throws a ReferenceError.
bound(name) ==
  name \in imports

\* The earlier content of .mailmap the model starts from.
OldMailmap ==
  <<"Ann <anndev@x.io> Annie <annie@x.io>", "\n">>

InitCommand ==
  /\ \E n \in 0..MaxClusters :
       /\ n <= Len(ReturnedClusters)
       /\ ret = SubSeq(ReturnedClusters, 1, n)
       /\ clusters = SubSeq(ReturnedClusters, 1, n)
       /\ authors = canonicalsOf(SubSeq(ReturnedClusters, 1, n))
                      \o aliasRecordsIn(SubSeq(ReturnedClusters, 1, n))
       /\ sorted = canonicalsOf(SubSeq(ReturnedClusters, 1, n))
                      \o aliasRecordsIn(SubSeq(ReturnedClusters, 1, n))
       /\ assigned = 0..(2 * n - 1)
       /\ i = 2 * n
       /\ j = 2 * n
  /\ minConfidence = Rat(70, 100)
  /\ pc = "done"
  /\ aliases = <<>>
  /\ clusterReason = <<>>
  /\ prev = <<>>
  /\ stats = <<>>
  /\ mailmap = <<>>
  /\ pair = <<>>
  /\ scored = <<>>
  /\ options \in [output : {"text", "json", "mailmap"}, apply : BOOLEAN]
  /\ \E f \in {<<>>, << <<>> >>, <<OldMailmap>>} :
       mailmapFile = [before |-> f, now |-> f]
  /\ exited = <<>>

\* Text output: the header and the summary; with no cluster the command
\* returns after 'No duplicate identities found!'.
TextSummary ==
  /\ pc = "stats"
  /\ options.output \notin {"json", "mailmap"}
  /\ pc' = IF Len(ret) = 0 THEN "out" ELSE "list"
  /\ UNCHANGED <<authors, minConfidence, sorted, assigned, clusters, i, j,
                 aliases, clusterReason, ret, prev, stats, mailmap, pair, scored,
                 options, mailmapFile, exited>>

\* The first DisplayLimit clusters are listed; when there are more, printInfo
\* is called for the line that counts the rest.
TextClusters ==
  /\ pc = "list"
  /\ pc' = IF Len(ret) > DisplayLimit /\ ~bound("printInfo") THEN "catch" ELSE "apply"
  /\ UNCHANGED <<authors, minConfidence, sorted, assigned, clusters, i, j,
                 aliases, clusterReason, ret, prev, stats, mailmap, pair, scored,
                 options, mailmapFile, exited>>

\* if (options.apply): the mailmap text is written to .mailmap, after the
\* content the file has when it exists; then printSuccess and printInfo.
Apply ==
  /\ pc = "apply"
  /\ options.apply
  /\ mailmap' = generateMailmap(ret)
  /\ mailmapFile' =
       [before |-> mailmapFile.before,
        now |-> IF mailmapFile.now # <<>>
                THEN <<mailmapFile.now[1] \o <<"\n">> \o generateMailmap(ret)>>
                ELSE <<generateMailmap(ret)>>]
  /\ pc' = IF bound("printInfo") THEN "out" ELSE "catch"
  /\ UNCHANGED <<authors, minConfidence, sorted, assigned, clusters, i, j,
                 aliases, clusterReason, ret, prev, stats, pair, scored,
                 options, exited>>

\* else: two printInfo lines that name the other options.
NoApply ==
  /\ pc = "apply"
  /\ ~options.apply
  /\ pc' = IF bound("printInfo") THEN "out" ELSE "catch"
  /\ UNCHANGED <<authors, minConfidence, sorted, assigned, clusters, i, j,
                 aliases, clusterReason, ret, prev, stats, mailmap, pair, scored,
                 options, mailmapFile, exited>>

\* catch (err): printError(`Failed to analyze authors: ${err.message}`) and
\* process.exit(1).
Catch ==
  /\ pc = "catch"
  /\ exited' = <<[code |-> 1,
                  error |-> <<"Failed to analyze authors: ", "printInfo is not defined">>]>>
  /\ pc' = "exit"
  /\ UNCHANGED <<authors, minConfidence, sorted, assigned, clusters, i, j,
                 aliases, clusterReason, ret, prev, stats, mailmap, pair, scored,
                 options, mailmapFile>>

NextCommand ==
  \/ ComputeStats
  \/ GenerateMailmap
  \/ TextSummary
  \/ TextClusters
  \/ Apply
  \/ NoApply
  \/ Catch

SpecCommand ==
  InitCommand /\ [][NextCommand]_vars
(***************************************************************************)
(* Properties                                                              *)
(***************************************************************************)
\* The record an alias entry was copied from ({...candidate, confidence, reason}).
Strip(a) ==
  [name |-> a.name, email |-> a.email, commits |-> a.commits]

Members(c) ==
  <<c.canonical>> \o [k \in 1..Len(c.aliases) |-> Strip(c.aliases[k])]

RECURSIVE Flatten(_)
Flatten(cs) ==
  IF cs = <<>> THEN <<>> ELSE Members(Head(cs)) \o Flatten(Tail(cs))

\* The records findClusters left unclustered: the positions it never marked.
Singletons ==
  { k \in 0..(Len(sorted) - 1) : k \notin assigned }

CountIn(s, r) ==
  Cardinality({ k \in 1..Len(s) : s[k] = r })

Returned ==
  pc = "done"

\* C1 (partition): when findClusters has returned, every input record occurs
\* exactly once among the canonicals and aliases of the returned clusters and
\* the unclustered records together: none twice, none dropped, none added.
C1_Partition ==
  Returned =>
    /\ \A r \in Range(authors) \cup Range(Flatten(ret)) :
         CountIn(Flatten(ret), r)
           + Cardinality({ k \in Singletons : At(sorted, k) = r })
           = CountIn(authors, r)
    /\ Len(Flatten(ret)) + Cardinality(Singletons) = Len(authors)

\* C1 witness: a returned cluster of three records next to a record that
\* stayed unclustered.
C1_Witness ==
  /\ Returned
  /\ Len(ret) = 1
  /\ Len(ret[1].aliases) = 2
  /\ Cardinality(Singletons) = 1

\* A call has returned after an earlier call on the same list that used a
\* lower threshold.
RaisedThreshold ==
  /\ Returned
  /\ prev # <<>>
  /\ RLt(prev[1].minConfidence, minConfidence)

RECURSIVE aliasCount(_)
aliasCount(cs) ==
  IF cs = <<>> THEN 0 ELSE Len(Head(cs).aliases) + aliasCount(Tail(cs))

\* The number of aliases of the cluster of record r in cs; 0 without cluster.
aliasesOf(cs, r) ==
  IF \E k \in 1..Len(cs) : cs[k].canonical = r
  THEN Len(cs[CHOOSE k \in 1..Len(cs) : cs[k].canonical = r].aliases)
  ELSE 0

\* C2 as stated: for the same list, a call with a higher threshold never
\* returns more clusters than a call with a lower threshold did.
C2_CountMonotone ==
  RaisedThreshold => Len(ret) <= Len(prev[1].ret)

\* C2 amended: for the same list, the number of clusters a call with a higher
\* threshold returns is at most the number of aliases a call with a lower
\* threshold merged; so no cluster at the lower threshold means none above it.
C2_CountBoundedByAliases ==
  RaisedThreshold =>
    /\ Len(ret) <= aliasCount(prev[1].ret)
    /\ (prev[1].ret = <<>> => ret = <<>>)

\* C2 witness: raising the threshold split one cluster into two.
C2_Witness ==
  /\ RaisedThreshold
  /\ Len(prev[1].ret) = 1
  /\ Len(ret) = 2

\* C3 as stated: raising the threshold never lengthens the alias list of any
\* canonical record (0 for a record without cluster) nor the total number of
\* aliases.
C3_AliasesMonotone ==
  RaisedThreshold =>
    /\ \A r \in Range(authors) : aliasesOf(ret, r) <= aliasesOf(prev[1].ret, r)
    /\ aliasCount(ret) <= aliasCount(prev[1].ret)

\* The aliases of the cluster of record r in cs, confidence and reason left
\* out; none without cluster.
aliasRecordsOf(cs, r) ==
  IF \E k \in 1..Len(cs) : cs[k].canonical = r
  THEN { Strip(a) : a \in Range(cs[CHOOSE k \in 1..Len(cs) : cs[k].canonical = r].aliases) }
  ELSE {}

\* C3 amended: for the record that comes first in the commit-sorted order,
\* raising the threshold never lengthens the alias list of its cluster: every
\* alias it has at the higher threshold it has at the lower one.
C3_FirstRecordMonotone ==
  (RaisedThreshold /\ sorted # <<>>) =>
    /\ aliasesOf(ret, At(sorted, 0)) <= aliasesOf(prev[1].ret, At(sorted, 0))
    /\ aliasRecordsOf(ret, At(sorted, 0)) \subseteq aliasRecordsOf(prev[1].ret, At(sorted, 0))

\* C3 witness: the first record kept a cluster at the higher threshold and
\* lost an alias to it.
C3_Witness ==
  /\ RaisedThreshold
  /\ sorted # <<>>
  /\ aliasesOf(ret, At(sorted, 0)) >= 1
  /\ aliasesOf(ret, At(sorted, 0)) < aliasesOf(prev[1].ret, At(sorted, 0))

\* The inner loop is at a candidate it is about to score.
Scoring ==
  pc = "inner" /\ j < Len(sorted)

\* C4 (symmetry): the score of the canonical candidate against the candidate
\* is the score of the candidate against the canonical candidate: same
\* confidence, same reason.
C4_ScoreSymmetric ==
  Scoring =>
    score(At(sorted, i), At(sorted, j)) = score(At(sorted, j), At(sorted, i))

\* C4 witness: the candidate about to be scored has the no-reply address and
\* the canonical the plain address with that user name.
C4_Witness ==
  /\ Scoring
  /\ emailsMatch(At(sorted, i).email, At(sorted, j).email).reason
       = <<"github-noreply-match">>
  /\ ~ghMatch(toLowerCase(Chars[At(sorted, i).email])).ok
  /\ ghMatch(toLowerCase(Chars[At(sorted, j).email])).ok

\* C5 (determinism): a call on the same list with the same threshold as the
\* call before returns the same cluster sequence.
C5_Deterministic ==
  (Returned /\ prev # <<>> /\ prev[1].minConfidence = minConfidence) =>
    ret = prev[1].ret

\* C5 witness: the repeated call returned two clusters again.
C5_Witness ==
  /\ Returned
  /\ prev # <<>>
  /\ prev[1].minConfidence = minConfidence
  /\ Len(ret) = 2

\* C6 (canonical by commit count): in every returned cluster no alias has
\* more commits than the canonical, and the aliases stand in non-increasing
\* commit order.
C6_CanonicalHasMostCommits ==
  Returned =>
    \A k \in 1..Len(ret) :
      /\ \A a \in 1..Len(ret[k].aliases) :
           ret[k].canonical.commits >= ret[k].aliases[a].commits
      /\ \A a \in 1..(Len(ret[k].aliases) - 1) :
           ret[k].aliases[a].commits >= ret[k].aliases[a + 1].commits

\* C6 witness: a cluster whose canonical is a no-reply address and whose
\* aliases, of decreasing commit counts, include a plain address.
C6_Witness ==
  /\ Returned
  /\ \E k \in 1..Len(ret) :
       /\ isNoReply(ret[k].canonical.email)
       /\ Len(ret[k].aliases) >= 2
       /\ ~isNoReply(ret[k].aliases[1].email)
       /\ ret[k].canonical.commits > ret[k].aliases[1].commits
       /\ ret[k].aliases[1].commits > ret[k].aliases[2].commits

\* C7 (inclusive threshold): every alias carries the confidence and reason of
\* scoring it against its canonical, and that confidence is at least
\* minConfidence; every record the inner loop has passed without merging it
\* scores strictly below minConfidence against the canonical candidate.
C7_MergedIffAtLeastThreshold ==
  /\ Returned =>
       \A k \in 1..Len(ret) : \A a \in 1..Len(ret[k].aliases) :
         LET al == ret[k].aliases[a]
             sc == score(ret[k].canonical, Strip(al))
         IN /\ al.confidence = sc.confidence
            /\ al.reason = sc.reason
            /\ RGe(al.confidence, minConfidence)
  /\ pc = "inner" =>
       \A k \in (i + 1)..(j - 1) :
         k \notin assigned =>
           RLt(score(At(sorted, i), At(sorted, k)).confidence, minConfidence)

\* C7 witness: an alias whose confidence is minConfidence exactly.
C7_Witness ==
  /\ Returned
  /\ RLt(Zero, minConfidence)
  /\ \E k \in 1..Len(ret) : \E a \in 1..Len(ret[k].aliases) :
       ret[k].aliases[a].confidence = minConfidence

RECURSIVE sumTotals(_)
sumTotals(cs) ==
  IF cs = <<>> THEN 0 ELSE Head(cs).totalCommits + sumTotals(Tail(cs))

\* C8 (totalCommits): the totalCommits of every returned cluster is the commit
\* count of its canonical plus those of its aliases, and the totals of all
\* clusters together do not exceed the commits of the input records.
C8_TotalCommits ==
  Returned =>
    /\ \A k \in 1..Len(ret) :
         ret[k].totalCommits = ret[k].canonical.commits + sumCommits(ret[k].aliases)
    /\ sumTotals(ret) <= sumCommits(authors)

\* C8 witness: a cluster with two aliases, and a record outside all clusters
\* whose commits no total counts.
C8_Witness ==
  /\ Returned
  /\ ret # <<>>
  /\ Len(ret[1].aliases) = 2
  /\ sumTotals(ret) < sumCommits(authors)

\* C9 (result order): the returned clusters stand in non-increasing
\* totalCommits order.
C9_SortedByTotal ==
  Returned =>
    \A k \in 1..(Len(ret) - 1) : ret[k].totalCommits >= ret[k + 1].totalCommits

\* The position of record r in the commit-sorted list.
PosOf(r) ==
  CHOOSE k \in 0..(Len(sorted) - 1) : At(sorted, k) = r

\* C9 witness: the first returned cluster was found later in the scan than
\* the second and has the larger total.
C9_Witness ==
  /\ Returned
  /\ Len(ret) = 2
  /\ PosOf(ret[1].canonical) > PosOf(ret[2].canonical)
  /\ ret[1].totalCommits > ret[2].totalCommits

\* C10 (no empty cluster): every returned cluster has an alias, and a list of
\* at most one record returns no cluster.
C10_EveryClusterHasAlias ==
  Returned =>
    /\ \A k \in 1..Len(ret) : Len(ret[k].aliases) >= 1
    /\ (Len(authors) <= 1 => ret = <<>>)

\* C10 witness: a cluster was returned and a record that absorbed nothing
\* was not.
C10_Witness ==
  /\ Returned
  /\ ret # <<>>
  /\ Singletons # {}

\* C11: once the statistics of an empty record list are computed, they report
\* totalIdentities 0 and a consolidation rate that is a number: not NaN and
\* not the outcome of a division by zero.
C11_EmptyListRateDefined ==
  (stats # <<>> /\ authors = <<>>) =>
    /\ stats[1].totalIdentities = 0
    /\ stats[1].consolidationRate.kind = "finite"

\* The input records that are in no returned cluster.
Unclustered ==
  { k \in 1..Len(authors) : authors[k] \notin Range(Flatten(ret)) }

\* C12 (statistics): duplicateIdentities is the sum of aliases.length over the
\* returned clusters, uniqueContributors is totalIdentities minus
\* duplicateIdentities, and that is the number of clusters plus the number of
\* unclustered records; so uniqueContributors >= clusters and
\* duplicateIdentities <= totalIdentities - clusters.
C12_StatsIdentities ==
  stats # <<>> =>
    LET st == stats[1]
    IN /\ st.totalIdentities = Len(authors)
       /\ st.clusters = Len(ret)
       /\ st.duplicateIdentities = aliasCount(ret)
       /\ st.uniqueContributors = st.totalIdentities - st.duplicateIdentities
       /\ st.uniqueContributors = Len(ret) + Cardinality(Unclustered)
       /\ st.uniqueContributors >= st.clusters
       /\ st.duplicateIdentities <= st.totalIdentities - st.clusters

\* C12 witness: statistics of a run that left one cluster of three records
\* and one record unclustered.
C12_Witness ==
  /\ stats # <<>>
  /\ stats[1].clusters = 1
  /\ stats[1].duplicateIdentities = 2
  /\ stats[1].uniqueContributors = 2
  /\ Cardinality(Unclustered) = 1

\* The pair of the single-pair specification has been scored.
Scored ==
  scored # <<>>

\* An address in lower case, character by character.
Lowered(e) ==
  toLowerCase(Chars[e])

\* The positions of '@' in s.
Ats(s) ==
  { k \in 1..Len(s) : s[k] = "@" }

FirstAt(s) ==
  CHOOSE k \in Ats(s) : \A m \in Ats(s) : k <= m

\* What stands before the first '@' of s: all of s when it has none.
BeforeAt(s) ==
  IF Ats(s) = {} THEN s ELSE SubSeq(s, 1, FirstAt(s) - 1)

\* What stands after the first '@' of s: nothing when it has none.
AfterAt(s) ==
  IF Ats(s) = {} THEN <<>> ELSE SubSeq(s, FirstAt(s) + 1, Len(s))

\* The username a GitHub no-reply address carries, as a set: empty when s is
\* not such an address. The address is a non-empty part without '@' before
\* "@users.noreply.github.com"; digits and a '+' at its front are left out
\* when something follows them.
NoReplyUser(s) ==
  LET n == Len(s) - Len(GhSuffix)
      front == SubSeq(s, 1, n)
      plus == { k \in 2..(n - 1) :
                  /\ front[k] = "+"
                  /\ \A m \in 1..(k - 1) : front[m] \in Digits }
  IN IF n < 1 \/ SubSeq(s, n + 1, Len(s)) # GhSuffix \/ Ats(front) # {}
     THEN {}
     ELSE IF plus = {} THEN {front}
     ELSE { SubSeq(front, k + 1, n) : k \in plus }

\* The decision table of the address rules, in its order.
EmailTable(e1, e2) ==
  IF e1 = e2
  THEN [match |-> TRUE, confidence |-> One, reason |-> <<"exact-email">>]
  ELSE IF BeforeAt(e1) = BeforeAt(e2) /\ Len(BeforeAt(e1)) > 3
  THEN [match |-> TRUE, confidence |-> Rat(80, 100), reason |-> <<"same-local-part">>]
  ELSE IF NoReplyUser(e1) # {} /\ NoReplyUser(e1) = NoReplyUser(e2)
  THEN [match |-> TRUE, confidence |-> Rat(95, 100), reason |-> <<"github-noreply">>]
  ELSE IF BeforeAt(e2) \in NoReplyUser(e1) \/ BeforeAt(e1) \in NoReplyUser(e2)
  THEN [match |-> TRUE, confidence |-> Rat(70, 100), reason |-> <<"github-noreply-match">>]
  ELSE [match |-> FALSE, confidence |-> Zero, reason |-> <<>>]

\* C13 (address rules): emailsMatch follows the ordered decision table:
\* addresses equal without regard to case give 1.0 'exact-email'; otherwise
\* equal local-parts longer than 3 give 0.8 'same-local-part', and a
\* local-part of length <= 3 never does; otherwise two GitHub no-reply
\* addresses with the same username, numeric prefix or not, give 0.95
\* 'github-noreply'; otherwise a no-reply username equal to the other
\* local-part gives 0.7 'github-noreply-match'; otherwise no match, 0, ''.
C13_EmailDecisionTable ==
  Scored =>
    LET e1 == Lowered(pair[1].email)
        e2 == Lowered(pair[2].email)
        r == scored[1].emailResult
    IN /\ r = EmailTable(e1, e2)
       /\ r.reason = <<"same-local-part">> => Len(BeforeAt(e1)) > 3

\* C13 witness: a prefixed and an unprefixed no-reply address of one
\* username, scored 'github-noreply'.
C13_Witness ==
  /\ Scored
  /\ pair[1].email = "1+alex@users.noreply.github.com"
  /\ pair[2].email = "alex@users.noreply.github.com"
  /\ scored[1].emailResult.reason = <<"github-noreply">>
  /\ scored[1].emailResult.confidence = Rat(95, 100)

\* C14 (name rules): a pair whose addresses match under no rule is scored on
\* the names alone: with nameSim > 0.8 it gets nameSim * 0.9 and
\* 'similar-name-same-domain' when what follows the first '@' is the same in
\* both addresses, nameSim * 0.7 and 'similar-name' otherwise; with
\* nameSim <= 0.8 it gets 0 and ''. A name reason never carries
\* '-name-mismatch'.
C14_NameBranch ==
  (Scored /\ ~scored[1].emailResult.match) =>
    LET nameSim == scored[1].nameSim
        sameDomain == AfterAt(Lowered(pair[1].email)) = AfterAt(Lowered(pair[2].email))
    IN /\ (RLt(Rat(8, 10), nameSim) /\ sameDomain) =>
            /\ scored[1].confidence = RMul(nameSim, Rat(9, 10))
            /\ scored[1].reason = <<"similar-name-same-domain">>
       /\ (RLt(Rat(8, 10), nameSim) /\ ~sameDomain) =>
            /\ scored[1].confidence = RMul(nameSim, Rat(7, 10))
            /\ scored[1].reason = <<"similar-name">>
       /\ ~RLt(Rat(8, 10), nameSim) =>
            /\ scored[1].confidence = Zero
            /\ scored[1].reason = <<>>

\* C15 (name-mismatch demotion): at the default threshold minConfidence = 0.6
\* no record is merged into a canonical whose address matches its own under
\* an address rule while the similarity of the two names is below 0.3.
C15_MismatchNeverMerged ==
  (Returned /\ minConfidence = Rat(60, 100)) =>
    \A c \in 1..Len(ret) : \A a \in 1..Len(ret[c].aliases) :
      ~ /\ emailsMatch(ret[c].canonical.email, ret[c].aliases[a].email).match
        /\ RLt(nameSimilarity(ret[c].canonical.name, ret[c].aliases[a].name),
               Rat(3, 10))

\* t occurs in s as a run of consecutive characters; the empty sequence
\* occurs in every sequence.
Occurs(t, s) ==
  \E k \in 1..(Len(s) - Len(t) + 1) : \A m \in 1..Len(t) : s[k + m - 1] = t[m]

\* The words of a normalized name: its maximal runs without a space.
Tokens(n) ==
  { SubSeq(n, a, b) : <<a, b>> \in
      { p \in (1..Len(n)) \X (1..Len(n)) :
          /\ p[1] <= p[2]
          /\ \A m \in p[1]..p[2] : n[m] # " "
          /\ (p[1] = 1 \/ n[p[1] - 1] = " ")
          /\ (p[2] = Len(n) \/ n[p[2] + 1] = " ") } }

Jaccard(n1, n2) ==
  Rat(Cardinality(Tokens(n1) \cap Tokens(n2)), Cardinality(Tokens(n1) \cup Tokens(n2)))

\* The precedence of the name rules after the equality rule and, where
\* emptyRule holds, the rule for an empty name.
NameTable(n1, n2, emptyRule) ==
  IF n1 = n2 THEN One
  ELSE IF emptyRule /\ (n1 = <<>> \/ n2 = <<>>) THEN Zero
  ELSE IF Occurs(n1, n2) \/ Occurs(n2, n1) THEN Rat(9, 10)
  ELSE IF RLt(Rat(1, 2), Jaccard(n1, n2))
       THEN RAdd(Rat(7, 10), RMul(Rat(2, 10), Jaccard(n1, n2)))
  ELSE ROneMinus(Rat(levenshtein(n1, n2), Max(Len(n1), Len(n2))))

InUnitInterval(x) ==
  /\ x.d > 0
  /\ RGe(x, Zero)
  /\ RGe(One, x)

\* C16 as stated (name rules): nameSimilarity is in [0, 1] and follows the
\* precedence: 1.0 for equal normalized names; else 0.9 when one is a
\* substring of the other, whatever the Jaccard score; else 0.7 + 0.2 * J
\* when J > 0.5; else 1 - levenshtein / maxLen.
C16_Precedence ==
  Scored =>
    LET n1 == normalizeName(Chars[pair[1].name])
        n2 == normalizeName(Chars[pair[2].name])
    IN /\ InUnitInterval(scored[1].nameSim)
       /\ scored[1].nameSim = NameTable(n1, n2, FALSE)

\* C16 amended: the same precedence with the empty-name rule in its place:
\* 1.0 for equal normalized names; else 0 when one of them is empty; else
\* 0.9 when one is a substring of the other; else 0.7 + 0.2 * J when
\* J > 0.5, a value in (0.8, 0.9]; else 1 - levenshtein / maxLen. The value
\* is in [0, 1] and no denominator is zero.
C16_PrecedenceWithEmptyRule ==
  Scored =>
    LET n1 == normalizeName(Chars[pair[1].name])
        n2 == normalizeName(Chars[pair[2].name])
        sim == scored[1].nameSim
    IN /\ InUnitInterval(sim)
       /\ sim = NameTable(n1, n2, TRUE)
       /\ (n1 # n2 /\ n1 # <<>> /\ n2 # <<>> /\ ~Occurs(n1, n2) /\ ~Occurs(n2, n1)) =>
            /\ Cardinality(Tokens(n1) \cup Tokens(n2)) > 0
            /\ Max(Len(n1), Len(n2)) > 0
            /\ RLt(Rat(1, 2), Jaccard(n1, n2)) =>
                 (RLt(Rat(8, 10), sim) /\ RGe(Rat(9, 10), sim))

\* C16 witness: two names that share two of three words and are no
\* substring of each other, scored 0.7 + 0.2 * 2/3.
C16_Witness ==
  /\ Scored
  /\ pair[1].name = "Alex K J"
  /\ pair[2].name = "K. Alex"
  /\ scored[1].nameSim = Rat(5, 6)

\* C17 (empty names): whenever one of the two normalized names is empty,
\* nameSimilarity is 0; such a pair whose addresses match under no rule gets
\* confidence 0, so no positive threshold merges it.
C17_EmptyNameScoresZero ==
  (Scored /\ (normalizeName(Chars[pair[1].name]) = <<>>
              \/ normalizeName(Chars[pair[2].name]) = <<>>)) =>
    /\ scored[1].nameSim = Zero
    /\ ~scored[1].emailResult.match => scored[1].confidence = Zero

\* C18 (address parts): emailDomain is the lower-cased text after the first
\* '@' of the address, all of it, and empty without '@'; emailLocal is the
\* lower-cased text before the first '@', the whole address without '@'.
C18_LocalAndDomain ==
  Scored =>
    /\ scored[1].local1 = BeforeAt(Lowered(pair[1].email))
    /\ scored[1].local2 = BeforeAt(Lowered(pair[2].email))
    /\ scored[1].domain1 = AfterAt(Lowered(pair[1].email))
    /\ scored[1].domain2 = AfterAt(Lowered(pair[2].email))

\* An address that is empty or has no '@'.
Malformed(e) ==
  Ats(Chars[e]) = {}

\* C19 (malformed addresses): a pair in which an address is malformed is
\* scored without error and its addresses match under no rule: no match,
\* confidence 0, empty reason.
C19_MalformedNeverMatches ==
  (Scored /\ (Malformed(pair[1].email) \/ Malformed(pair[2].email))) =>
    scored[1].emailResult = [match |-> FALSE, confidence |-> Zero, reason |-> <<>>]

\* The mailmap text has been generated.
Generated ==
  pc = "out"

\* The number of lines of the text before the lines of cluster c.
RECURSIVE LinesBefore(_)
LinesBefore(c) ==
  IF c = 1 THEN 3 ELSE LinesBefore(c - 1) + 2 + Len(ret[c - 1].aliases)

\* C20 (mailmap text): the text is two header comment lines and a blank
\* line; then for each cluster, in cluster order, one '# Cluster: <canonical
\* name> (<totalCommits> commits)' line, one mapping line per alias in alias
\* order, each carrying the canonical of its own cluster, and one blank line.
\* The mapping lines are as many as the aliases of all clusters, and without
\* clusters the text is the header alone.
C20_MailmapLayout ==
  Generated =>
    LET lines == split(mailmap, "\n")
    IN /\ Len(lines) = 3 + 2 * Len(ret) + aliasCount(ret)
       /\ lines[1] = <<"# Generated by gitaudit (gitaudit authors)">>
       /\ lines[2] = <<"# Format: Proper Name <proper@email.com> Alias Name <alias@email.com>">>
       /\ lines[3] = <<>>
       /\ \A c \in 1..Len(ret) :
            LET at == LinesBefore(c)
                canonical == ret[c].canonical
            IN /\ lines[at + 1] = <<"# Cluster: ", canonical.name, " (",
                                    ToString(ret[c].totalCommits), " commits)">>
               /\ \A a \in 1..Len(ret[c].aliases) :
                    lines[at + 1 + a] =
                      <<canonical.name, " <", canonical.email, "> ",
                        ret[c].aliases[a].name, " <", ret[c].aliases[a].email, ">">>
               /\ lines[at + 2 + Len(ret[c].aliases)] = <<>>
       /\ Cardinality({ k \in 1..Len(lines) : Len(lines[k]) = 8 }) = aliasCount(ret)
       /\ ret = <<>> => Len(lines) = 3

\* C20 witness: the text of two clusters, the second with another canonical
\* than the first.
C20_Witness ==
  /\ Generated
  /\ Len(ret) = 2
  /\ ret[1].canonical.name # ret[2].canonical.name
  /\ Len(split(mailmap, "\n")) = 9

\* C21 (equal names, other domain): two records with equal normalized names,
\* addresses that match under no rule and different text after the first '@'
\* get confidence 0.7 and 'similar-name', which every minConfidence <= 0.7
\* merges: the default 0.6 and the 70 percent of the command line among them.
C21_EqualNamesOtherDomain ==
  (/\ Scored
   /\ normalizeName(Chars[pair[1].name]) = normalizeName(Chars[pair[2].name])
   /\ ~scored[1].emailResult.match
   /\ AfterAt(Lowered(pair[1].email)) # AfterAt(Lowered(pair[2].email))) =>
    /\ scored[1].confidence = Rat(7, 10)
    /\ scored[1].reason = <<"similar-name">>
    /\ \A t \in Thresholds : t <= 70 => isMatch(scored[1].confidence, Rat(t, 100))

\* The command runs in text output mode and findClusters found a cluster.
TextWithClusters ==
  /\ options.output = "text"
  /\ Len(ret) >= 1
  /\ pc \in {"stats", "list", "apply", "catch", "out", "exit"}

\* C22 (text output): in text mode with at least one cluster, with --apply
\* or without it, the command never enters its error path: it does not reach
\* the catch block, prints no 'Failed to analyze authors' and does not exit
\* with code 1.
C22_TextModeNeverFails ==
  TextWithClusters =>
    /\ pc \notin {"catch", "exit"}
    /\ exited = <<>>

\* C23 (--apply): when the command has ended in text mode with --apply and at
\* least one cluster, .mailmap is generateMailmap(clusters) when there was no
\* file, and the earlier content, a line break and that text when there was.
C23_ApplyWritesMailmap ==
  (TextWithClusters /\ options.apply /\ pc \in {"out", "exit"}) =>
    mailmapFile.now =
      IF mailmapFile.before = <<>>
      THEN <<generateMailmap(ret)>>
      ELSE <<mailmapFile.before[1] \o <<"\n">> \o generateMailmap(ret)>>

\* The records the returned clusters hold as aliases.
AliasRecords ==
  UNION { { Strip(a) : a \in Range(ret[k].aliases) } : k \in 1..Len(ret) }

\* C24 (greedy first match): for every alias, at sorted position j, of a
\* canonical at sorted position i, no record at an earlier position than i
\* that was not itself absorbed as an alias scores minConfidence or more
\* against the record at j: the first canonical candidate that matches a
\* record absorbs it.
C24_GreedyFirstMatch ==
  Returned =>
    \A k \in 1..Len(ret) : \A a \in 1..Len(ret[k].aliases) :
      LET jj == PosOf(Strip(ret[k].aliases[a]))
          ii == PosOf(ret[k].canonical)
      IN /\ ii < jj
         /\ \A e \in 0..(ii - 1) :
              At(sorted, e) \notin AliasRecords =>
                RLt(score(At(sorted, e), At(sorted, jj)).confidence, minConfidence)

\* C24 witness: a cluster whose canonical is not the first record of the
\* sorted list, the first record having been a canonical candidate before it.
C24_Witness ==
  /\ Returned
  /\ Len(ret) >= 1
  /\ PosOf(ret[1].canonical) >= 1
  /\ At(sorted, 0) \notin AliasRecords
  /\ minConfidence = Rat(70, 100)

\* C25 as stated (cluster reason): the reason of every returned cluster is
\* the reason recorded on its first alias, at every threshold.
C25_ReasonOfFirstAlias ==
  Returned =>
    \A k \in 1..Len(ret) : ret[k].reason = ret[k].aliases[1].reason

\* The first reason in al that is not empty; empty when there is none.
RECURSIVE FirstReason(_)
FirstReason(al) ==
  IF al = <<>> THEN <<>>
  ELSE IF Head(al).reason # <<>> THEN Head(al).reason
  ELSE FirstReason(Tail(al))

\* C25 amended: the reason of every returned cluster is the first non-empty
\* reason among its aliases in scan order, empty when all are empty; at
\* every minConfidence > 0 that is the reason of the first alias.
C25_FirstNonEmptyReason ==
  Returned =>
    \A k \in 1..Len(ret) :
      /\ ret[k].reason = FirstReason(ret[k].aliases)
      /\ RLt(Zero, minConfidence) => ret[k].reason = ret[k].aliases[1].reason

\* C25 witness: a cluster whose first alias was merged with an empty reason
\* and whose reason is that of a later alias.
C25_Witness ==
  /\ Returned
  /\ \E k \in 1..Len(ret) :
       /\ ret[k].aliases[1].reason = <<>>
       /\ ret[k].reason # <<>>

\* The place of record r in the input list.
InputIndex(r) ==
  CHOOSE k \in 1..Len(authors) : authors[k] = r

\* C26 (ties): records with equal commit counts are processed in input
\* order: they stand in the sorted list as in the input, a canonical with
\* the commit count of one of its aliases came before it in the input, and
\* aliases with equal commit counts keep their input order.
C26_TiesInInputOrder ==
  /\ pc \in {"outer", "inner", "done"} =>
       \A p, q \in 1..Len(sorted) :
         (p < q /\ sorted[p].commits = sorted[q].commits) =>
           InputIndex(sorted[p]) < InputIndex(sorted[q])
  /\ Returned =>
       \A k \in 1..Len(ret) :
         /\ \A a \in 1..Len(ret[k].aliases) :
              ret[k].canonical.commits = ret[k].aliases[a].commits =>
                InputIndex(ret[k].canonical) < InputIndex(Strip(ret[k].aliases[a]))
         /\ \A a, b \in 1..Len(ret[k].aliases) :
              (a < b /\ ret[k].aliases[a].commits = ret[k].aliases[b].commits) =>
                InputIndex(Strip(ret[k].aliases[a])) < InputIndex(Strip(ret[k].aliases[b]))

\* C26 witness: from an input that was not in commit order, a cluster whose
\* canonical and first two aliases all have the same commit count.
C26_Witness ==
  /\ Returned
  /\ sorted # authors
  /\ \E k \in 1..Len(ret) :
       /\ Len(ret[k].aliases) >= 2
       /\ ret[k].canonical.commits = ret[k].aliases[1].commits
       /\ ret[k].aliases[1].commits = ret[k].aliases[2].commits

\* The sorted positions of the records that are no alias: the canonicals and
\* the unclustered records.
NonAliasPositions ==
  { k \in 0..(Len(sorted) - 1) : At(sorted, k) \notin AliasRecords }

\* C27 (maximality): in the result any two different records that are each a
\* canonical or unclustered score strictly below minConfidence against each
\* other, in both directions.
C27_NonAliasesDoNotMatch ==
  Returned =>
    \A a, b \in NonAliasPositions :
      a < b =>
        /\ RLt(score(At(sorted, a), At(sorted, b)).confidence, minConfidence)
        /\ RLt(score(At(sorted, b), At(sorted, a)).confidence, minConfidence)

\* C27 witness: two clusters, and an alias of the first that the canonical of
\* the second matches: the match that can stay unmerged.
C27_Witness ==
  /\ Returned
  /\ Len(ret) = 2
  /\ \E k, m \in 1..2 :
       /\ k # m
       /\ \E a \in 1..Len(ret[k].aliases) :
            RGe(score(ret[m].canonical, Strip(ret[k].aliases[a])).confidence,
                minConfidence)

\* C28 (threshold 0): with minConfidence = 0 and two records or more,
\* findClusters returns one cluster: the first record of the commit-sorted
\* order with every other record as its alias, in sorted order, those of
\* confidence 0 and empty reason among them.
C28_ZeroThresholdOneCluster ==
  (Returned /\ minConfidence = Zero /\ Len(authors) >= 2) =>
    /\ Len(ret) = 1
    /\ ret[1].canonical = sorted[1]
    /\ Len(ret[1].aliases) = Len(sorted) - 1
    /\ \A a \in 1..Len(ret[1].aliases) : Strip(ret[1].aliases[a]) = sorted[a + 1]

\* C28 witness: a cluster returned at threshold 0 with an alias of
\* confidence 0 and empty reason.
C28_Witness ==
  /\ Returned
  /\ minConfidence = Zero
  /\ Len(ret) = 1
  /\ \E a \in 1..Len(ret[1].aliases) :
       /\ ret[1].aliases[a].confidence = Zero
       /\ ret[1].aliases[a].reason = <<>>

\* The reason codes.
ReasonCodes ==
  LET emailCodes == { <<"exact-email">>, <<"same-local-part">>,
                      <<"github-noreply">>, <<"github-noreply-match">> }
  IN emailCodes
       \cup { c \o <<"-name-mismatch">> : c \in emailCodes }
       \cup { <<"similar-name-same-domain">>, <<"similar-name">> }

\* C29 (reason codes): at every minConfidence > 0 every alias of every
\* returned cluster has a confidence above 0 and one of the reason codes,
\* none of them empty, and every returned cluster has a non-empty reason.
C29_ReasonsFromClosedSet ==
  (Returned /\ RLt(Zero, minConfidence)) =>
    \A k \in 1..Len(ret) :
      /\ ret[k].reason # <<>>
      /\ ret[k].reason \in ReasonCodes
      /\ \A a \in 1..Len(ret[k].aliases) :
           /\ RLt(Zero, ret[k].aliases[a].confidence)
           /\ ret[k].aliases[a].reason \in ReasonCodes

\* C29 witness: a cluster returned at 0.01 with an alias below the default
\* threshold, merged on an address match the names do not support.
C29_Witness ==
  /\ Returned
  /\ minConfidence = Rat(1, 100)
  /\ \E k \in 1..Len(ret) : \E a \in 1..Len(ret[k].aliases) :
       /\ RLt(ret[k].aliases[a].confidence, Rat(60, 100))
       /\ ret[k].aliases[a].reason = <<"same-local-part", "-name-mismatch">>

\* C30 (inputs left alone): no step of findClusters changes the caller's
\* list (its length, its order, the name, email and commits of its records,
\* which never gain a confidence or a reason), the sort working on a copy,
\* and generateMailmap leaves the clusters it is given unchanged.
C30_InputsUnchanged ==
  [][ /\ authors' = authors
      /\ \A k \in 1..Len(authors') :
           DOMAIN authors'[k] = {"name", "email", "commits"}
      /\ (pc = "stats" /\ pc' = "out") => ret' = ret ]_vars

\* C30 witness: the mailmap generated for clusters found in a list that was
\* not in commit order.
C30_Witness ==
  /\ pc = "out"
  /\ mailmap = generateMailmap(ret)
  /\ Len(ret) >= 1
  /\ sorted # authors
  /\ \E k \in 1..Len(ret) : ret[k].canonical # authors[1]

=============================================================================
